---- MODULE Spec2Model ----
(***************************************************************************)
(* svelte-language-server, ts-svelte plugin: the per-project language      *)
(* service registry, the per-document snapshot and source-map-consumer     *)
(* caches, and the position mapper that rewrites engine results into the   *)
(* coordinates of the original document.                                   *)
(*                                                                         *)
(*   Spec        the asynchronous service (src/plugins/ts-svelte/service.ts*)
(*               with DocumentSnapshot.ts and the plugin that awaits it)   *)
(*   SpecMapper  the position mapper of that service, on concrete texts    *)
(*   SpecRestart the synchronous service that restarts the engine when a   *)
(*               document's script kind changes (unnamed/part_000)         *)
(*   SpecFiles   the updates and queries of Spec without edits, from every  *)
(*               kind of first text: what a host's file list depends on    *)
(*   SpecOptions the compiler options and files createLanguageService reads*)
(*   SpecRanges  the mapping of diagnostics to ranges that the plugin of   *)
(*               the synchronous service does itself (TSSveltePlugin.ts)   *)
(***************************************************************************)
EXTENDS Integers, Sequences, FiniteSets, TLC

\* ------------------------------------------------------------------ bounds
MaxEdits == 1      \* edits the editor makes, over all documents
MaxRequests == 3   \* requests the feature handlers start

\* --------------------------------------------------------------- universe
\* A file name is the sequence of its parts, so that appending and removing
\* the ".tsx" suffix are computed and not assumed.
Docs == {"A", "B", "C"}

getFilePath(d) ==
  CASE d = "A" -> <<"/p/A", ".svelte">>
    [] d = "B" -> <<"/p/B", ".svelte">>
    [] OTHER   -> <<"/q/C", ".svelte">>

\* ts.findConfigFile(dirname(path), ..., 'tsconfig.json') || ... || ''
\* the file system holds /p/tsconfig.json and no configuration above /q.
findConfigFile(d) == IF getFilePath(d)[1] \in {"/p/A", "/p/B"} THEN "/p/tsconfig.json" ELSE ""

ConfigPaths == {findConfigFile(d) : d \in Docs}

isSvelte(filename) == Len(filename) >= 1 /\ filename[Len(filename)] = ".svelte"

useSvelteTsxName(filename) ==
  IF isSvelte(filename) THEN Append(filename, ".tsx") ELSE filename

isSvelteTsx(fileName) ==
  /\ Len(fileName) >= 2
  /\ fileName[Len(fileName) - 1] = ".svelte"
  /\ fileName[Len(fileName)] = ".tsx"

originalNameFromSvelteTsx(filename) == SubSeq(filename, 1, Len(filename) - 1)

FileNames == {getFilePath(d) : d \in Docs} \cup {useSvelteTsxName(getFilePath(d)) : d \in Docs}

\* undefined, for each kind of value (records, so that they compare with records)
NoService == [undefined |-> "service"]
NoSnapshot == [undefined |-> "snapshot"]
NoConsumer == [undefined |-> "consumer"]
NoMap == <<>>
NoVersion == <<>>
NoQuery == [undefined |-> "call"]

\* What svelte2tsx does with a document's current text: it returns code and a
\* map, code without a map, or it throws.
ConvOutcomes == {"map", "nomap", "throws"}

VARIABLES
  docVersion,   \* Document.version, advanced by the editor
  docConv,      \* the converter's outcome on the document's current text
  services,     \* module-level Map tsconfigPath -> container
  createCalls,  \* how often createLanguageService ran, per path
  nextEngine,   \* identity of the next ts.createLanguageService result
  consumers,    \* module-level Map Document -> {version, consumer}
  destroyed,    \* consumers on which destroy() was called
  pending,      \* updateDocument calls suspended at their await, oldest first
  returned,     \* handles delivered to callers whose continuation has not run
  nreq,         \* requests started so far
  served,       \* history: every (document, path, handle) a request was given
  completed,    \* history: <<version>> of the last completed map-bearing update, per document
  lastUpdate,   \* the last updateDocument call's synchronous part
  lastQuery     \* the last diagnostics query a caller ran

\* the position mapper on concrete texts (SpecMapper)
VARIABLES
  mData,   \* what getSourceMapData returns for the queried file
  mCall    \* the last call of a closure: its operation, input and result

mapVars == <<mData, mCall>>

\* the synchronous service that restarts its engine (SpecRestart)
VARIABLES
  rKind,        \* the script kind each document's current text has
  rServices,    \* module-level Map tsconfigPath -> container
  rNextEngine,  \* identity of the next ts.createLanguageService result
  rDisposed,    \* engines on which dispose() was called
  rHandedOut,   \* history: the handles each container has returned
  rLast         \* the last updateDocument call

restartVars == <<rKind, rServices, rNextEngine, rDisposed, rHandedOut, rLast>>

lifeVars == <<docVersion, docConv, services, createCalls, nextEngine, consumers,
              destroyed, pending, returned, nreq, served, completed, lastUpdate,
              lastQuery>>


\* createLanguageService's reading of the configuration:
VARIABLES
  oRead,        \* what the configuration path and ts.readConfigFile gave, or NoQuery
  oContext      \* the options and declared files of the context built, or NoQuery

optVars == <<oRead, oContext>>

\* the plugin's own mapping of diagnostics to ranges (SpecRanges):
VARIABLES
  gIn,      \* the document version, the source map and the engine's diagnostics
  gCache,   \* this.consumers.get(document) of the plugin
  gOut      \* where the call is, and the diagnostics it returned

rangeVars == <<gIn, gCache, gOut>>

vars == <<lifeVars, mapVars, restartVars, optVars, rangeVars>>

\* ------------------------------------------------------------- documents
\* createDocument(fileName, content) of the plugin opens a document of its own
\* for a file read from disk: version 0, and a text svelte2tsx converts.
createDocument(fileName) ==
  CASE fileName = getFilePath("A") -> "diskA"
    [] fileName = getFilePath("B") -> "diskB"
    [] OTHER -> "diskC"

version(document) == IF document \in Docs THEN docVersion[document] ELSE 0

conv(document) == IF document \in Docs THEN docConv[document] ELSE "map"

\* consumers.get(document)
consumersGet(document) ==
  IF document \in Docs THEN consumers[document] ELSE NoConsumer

\* the svelte files a document's script imports
Imports(d) == IF d = "A" THEN {"B"} ELSE {}

\* ------------------------------------------------- DocumentSnapshot.fromDocument
\* The generated text is one character, named by the document and the version
\* it was derived from; the empty text is the result of a failed conversion.
GenText(d, v) == << <<d, v>> >>
EmptyText == <<>>

\* svelte2tsx(text, path): the code and the map it returns when it does not throw.
svelte2tsxCode(d) == GenText(d, version(d))
svelte2tsxMap(d) == IF conv(d) = "map" THEN <<d, version(d)>> ELSE NoMap

\* `raised` tells whether the exception left fromDocument; srcVersion is the
\* document version the text was read at (the snapshot itself keeps only the
\* live document).
\* Variant without the try/catch: the converter's exception leaves fromDocument.
fromDocumentRethrow(d) ==
  LET threw == conv(d) = "throws"
      tsxSource == IF threw THEN EmptyText ELSE svelte2tsxCode(d)
      tsxMap == IF threw THEN NoMap ELSE svelte2tsxMap(d)
  IN [raised |-> threw, document |-> d, srcVersion |-> version(d),
      text |-> tsxSource, length |-> Len(tsxSource), map |-> tsxMap]

\* DocumentSnapshot.fromDocument(document)
fromDocument(d) ==
  LET threw == conv(d) = "throws"
      tsxSource == IF threw THEN EmptyText ELSE svelte2tsxCode(d)
      tsxMap == IF threw THEN NoMap ELSE svelte2tsxMap(d)
  IN [raised |-> FALSE, document |-> d, srcVersion |-> version(d),
      text |-> tsxSource, length |-> Len(tsxSource), map |-> tsxMap]

\* ------------------------------------------------------ createLanguageService
\* The container's closure state: the wrapped language service (a const of the
\* closure, created once by ts.createLanguageService(host)) and `documents`.
createLanguageService(tsconfigPath) ==
  [languageService |-> nextEngine,
   documents |-> [f \in FileNames |-> NoSnapshot]]

\* Variant of the registry lookup that never finds a container.
servicesHasNever(tsconfigPath) == FALSE

\* services.has(tsconfigPath)
servicesHas(tsconfigPath) == services[tsconfigPath] # NoService

\* Variant of the staleness test that rebuilds the consumer on every update.
consumerIsStaleAlways(d) == TRUE

\* Variant of the staleness test that reuses any cached consumer.
consumerIsStaleIgnoringVersion(d) == consumers[d] = NoConsumer

\* !consumer || consumer.version != document.version
consumerIsStale(d) ==
  consumers[d] = NoConsumer \/ consumers[d].version # docVersion[d]

\* Variant that stores every document's snapshot under one name.
attachNameShared(d) == useSvelteTsxName(getFilePath("A"))

\* Variant that stores the snapshot under the document's own file name.
attachNameOriginal(d) == getFilePath(d)

\* the key updateDocument stores a document's snapshot under:
\* useSvelteTsxName(document.getFilePath()!)
attachName(d) == useSvelteTsxName(getFilePath(d))

\* getSvelteSnapshot(fileName) on a container's `documents`: the snapshot it
\* returns (NoSnapshot for undefined) and `documents` afterwards.
\* Variant that reads a generated file from disk on every call.
getSvelteSnapshotReloads(documents, fileName) ==
  IF isSvelteTsx(fileName)
    THEN LET originalName == originalNameFromSvelteTsx(fileName)
             doc == fromDocument(createDocument(originalName))
         IN [doc |-> doc, documents |-> [documents EXCEPT ![fileName] = doc]]
  ELSE [doc |-> documents[fileName], documents |-> documents]

getSvelteSnapshot(documents, fileName) ==
  IF documents[fileName] # NoSnapshot
    THEN [doc |-> documents[fileName], documents |-> documents]
  ELSE IF isSvelteTsx(fileName)
    THEN LET originalName == originalNameFromSvelteTsx(fileName)
             doc == fromDocument(createDocument(originalName))
         IN [doc |-> doc, documents |-> [documents EXCEPT ![fileName] = doc]]
  ELSE [doc |-> NoSnapshot, documents |-> documents]

\* The files the engine loads to analyse `fileName`: the file and the generated
\* files of the svelte files its script imports (resolveModuleNames), each
\* through host.getScriptSnapshot, hence getSvelteSnapshot.
RECURSIVE loadAll(_, _)
loadAll(documents, fileNames) ==
  IF fileNames = {} THEN documents
  ELSE LET f == CHOOSE x \in fileNames : TRUE
       IN loadAll(getSvelteSnapshot(documents, f).documents, fileNames \ {f})

\* ------------------------------------------------------ host.getScriptFileNames
\* parsedConfig.fileNames of a project, in the order the configuration lists
\* them: /p/tsconfig.json declares a script and the svelte file A; without a
\* configuration `files` stays [].
parsedFileNames(tsconfigPath) ==
  IF tsconfigPath = "" THEN <<>>
  ELSE << <<"/p/main", ".ts">>, <<"/p/A", ".svelte">> >>

\* the two shim declaration files, resolved against the converter's directory
svelteTsxFiles ==
  << <<"/svelte2tsx/svelte-shims", ".d.ts">>, <<"/svelte2tsx/svelte-jsx", ".d.ts">> >>

\* the file names in the order their entries were added (Map iteration order),
\* which the order of this list stands for
FileNameList ==
  << <<"/p/A", ".svelte", ".tsx">>, <<"/p/B", ".svelte", ".tsx">>,
     <<"/q/C", ".svelte", ".tsx">>, <<"/p/A", ".svelte">>, <<"/p/B", ".svelte">>,
     <<"/q/C", ".svelte">> >>

\* Array.from(documents.keys())
keysOf(documents) ==
  LET hasEntry(f) == documents[f] # NoSnapshot
  IN SelectSeq(FileNameList, hasEntry)

\* Array.from(new Set(list)): the first occurrence of every member, in order
\* (the first n members of the list, without their repetitions)
RECURSIVE fromSet(_, _)
fromSet(list, n) ==
  IF n = 0 THEN <<>>
  ELSE IF \E i \in 1..(n - 1) : list[i] = list[n]
    THEN fromSet(list, n - 1)
    ELSE Append(fromSet(list, n - 1), list[n])

\* Variant that reports every file under the name it is kept under.
getScriptFileNamesAsKept(tsconfigPath, documents) ==
  LET list == parsedFileNames(tsconfigPath) \o keysOf(documents) \o svelteTsxFiles
  IN fromSet(list, Len(list))

\* host.getScriptFileNames()
getScriptFileNames(tsconfigPath, documents) ==
  LET list == parsedFileNames(tsconfigPath) \o keysOf(documents) \o svelteTsxFiles
      renamed == [i \in 1..Len(list) |-> useSvelteTsxName(list[i])]
  IN fromSet(renamed, Len(list))

\* the generated files of the svelte files a project declares
DeclaredGenerated ==
  [p \in ConfigPaths |->
     {useSvelteTsxName(parsedFileNames(p)[i]) :
        i \in {j \in 1..Len(parsedFileNames(p)) : isSvelte(parsedFileNames(p)[j])}}]

\* The files the engine loads to answer a query of document d. Its root files
\* are those host.getScriptFileNames lists: the keys of `documents` have entries,
\* which getSvelteSnapshot returns as they are, and scripts and shim files are
\* read from disk, so of the roots only the generated files of the declared
\* svelte files can be loaded into `documents`. With them it loads the generated
\* file of d and the generated files of the svelte files its script imports.
programFiles(d) ==
  DeclaredGenerated[findConfigFile(d)] \cup
  {useSvelteTsxName(getFilePath(d))} \cup
  {useSvelteTsxName(getFilePath(i)) : i \in Imports(d)}

\* getSourceMapData(fileName), after the engine has loaded its files
getSourceMapData(documents, fileName) ==
  LET snapshot == getSvelteSnapshot(documents, fileName).doc
  IN IF snapshot # NoSnapshot
       THEN [original |-> snapshot.document,
             consumer |-> consumersGet(snapshot.document),
             generated |-> snapshot.text]
       ELSE [original |-> "undefined", consumer |-> NoConsumer, generated |-> EmptyText]

\* host.getScriptVersion(fileName): the version the snapshot's document has when
\* the engine asks (String(doc.document.version)), '0' without a snapshot.
getScriptVersion(documents, fileName) ==
  LET doc == getSvelteSnapshot(documents, fileName).doc
  IN IF doc # NoSnapshot THEN version(doc.document) ELSE 0

\* host.getScriptSnapshot(fileName): the snapshot of the file, whose text is the
\* one its conversion produced, or the text the file has on disk.
getScriptSnapshot(documents, fileName) ==
  LET doc == getSvelteSnapshot(documents, fileName).doc
  IN IF doc # NoSnapshot THEN [text |-> doc.text, srcVersion |-> doc.srcVersion]
     ELSE [text |-> << <<"disk", fileName>> >>, srcVersion |-> 0]

\* What the engine reports for a generated text: nothing for the empty text,
\* otherwise any list of at most one diagnostic that starts at a character of it.
engineDiagnostics(text) ==
  IF Len(text) = 0 THEN {<<>>}
  ELSE {<<>>} \cup {<<[start |-> st]>> : st \in 0..(Len(text) - 1)}

\* the state after the module is loaded, for documents whose first texts the
\* converter treats as `outcomes` says
LifeInitWith(outcomes) ==
  /\ docVersion = [d \in Docs |-> 0]
  /\ docConv = outcomes
  /\ services = [p \in ConfigPaths |-> NoService]
  /\ createCalls = [p \in ConfigPaths |-> 0]
  /\ nextEngine = 1
  /\ consumers = [d \in Docs |-> NoConsumer]
  /\ destroyed = {}
  /\ pending = <<>>
  /\ returned = <<>>
  /\ nreq = 0
  /\ served = {}
  /\ completed = [d \in Docs |-> NoVersion]
  /\ lastUpdate = NoQuery
  /\ lastQuery = NoQuery

LifeInit == LifeInitWith([d \in Docs |-> "map"])

RECURSIVE SumVersions(_)
SumVersions(S) ==
  IF S = {} THEN 0
  ELSE LET d == CHOOSE x \in S : TRUE IN docVersion[d] + SumVersions(S \ {d})

\* The editor changes a document: its version advances and the converter may
\* treat the new text differently.
Edit(d) ==
  /\ SumVersions(Docs) < MaxEdits
  /\ docVersion' = [docVersion EXCEPT ![d] = @ + 1]
  /\ \E c \in ConvOutcomes : docConv' = [docConv EXCEPT ![d] = c]
  /\ UNCHANGED <<services, createCalls, nextEngine, consumers, destroyed, pending,
                 returned, nreq, served, completed, lastUpdate, lastQuery, mapVars,
                 restartVars, optVars, rangeVars>>

\* getLanguageServiceForDocument(document) up to the first suspension: the
\* registry lookup or creation, then updateDocument up to its await (or, when
\* it does not await, to its return).
getLanguageServiceForDocument(d) ==
  /\ nreq < MaxRequests
  /\ LET tsconfigPath == findConfigFile(d)
         fresh == ~servicesHas(tsconfigPath)
         service == IF fresh THEN createLanguageService(tsconfigPath)
                             ELSE services[tsconfigPath]
         newSnapshot == fromDocument(d)
         name == attachName(d)
         attached == [service EXCEPT !.documents[name] = newSnapshot]
         req == nreq + 1
         handle == [document |-> d, path |-> tsconfigPath, version |-> docVersion[d],
                    lang |-> service.languageService]
     IN /\ nreq' = req
        /\ createCalls' = IF fresh THEN [createCalls EXCEPT ![tsconfigPath] = @ + 1]
                                   ELSE createCalls
        /\ nextEngine' = IF fresh THEN nextEngine + 1 ELSE nextEngine
        /\ lastUpdate' = [document |-> d, conv |-> docConv[d],
                          snapshot |-> newSnapshot, raised |-> newSnapshot.raised,
                          name |-> name, lang |-> service.languageService,
                          awaits |-> ~newSnapshot.raised /\ newSnapshot.map # NoMap
                                     /\ consumerIsStale(d)]
        /\ IF newSnapshot.raised
             THEN \* the exception leaves updateDocument: nothing is attached
                  /\ services' = [services EXCEPT ![tsconfigPath] = service]
                  /\ UNCHANGED <<consumers, destroyed, pending, returned, served,
                                 completed>>
             ELSE /\ services' = [services EXCEPT ![tsconfigPath] = attached]
                  /\ IF newSnapshot.map # NoMap
                       THEN IF consumerIsStale(d)
                              THEN \* consumer?.consumer.destroy(); await new SourceMapConsumer
                                   /\ destroyed' = IF consumers[d] = NoConsumer
                                                     THEN destroyed
                                                     ELSE destroyed \cup {consumers[d].consumer}
                                   /\ pending' = Append(pending,
                                        [req |-> req, document |-> d, path |-> tsconfigPath,
                                         version |-> docVersion[d], map |-> newSnapshot.map])
                                   /\ UNCHANGED <<consumers, returned, served, completed>>
                              ELSE /\ returned' = Append(returned, handle)
                                   /\ served' = served \cup
                                        {[document |-> d, path |-> tsconfigPath, lang |-> handle.lang]}
                                   /\ completed' = [completed EXCEPT ![d] = <<docVersion[d]>>]
                                   /\ UNCHANGED <<consumers, destroyed, pending>>
                       ELSE /\ consumers' = [consumers EXCEPT ![d] = NoConsumer]
                            /\ returned' = Append(returned, handle)
                            /\ served' = served \cup
                                 {[document |-> d, path |-> tsconfigPath, lang |-> handle.lang]}
                            /\ UNCHANGED <<destroyed, pending, completed>>
  /\ UNCHANGED <<docVersion, docConv, lastQuery, mapVars, restartVars, optVars, rangeVars>>

\* updateDocument after its await: the promises of `new SourceMapConsumer`
\* settle in the order they were made, so the oldest suspended call resumes.
\* The consumer is named by the map it was built from and the request that
\* built it.
updateDocumentResume ==
  /\ pending # <<>>
  /\ LET r == Head(pending)
         consumer == [version |-> r.version,
                      consumer |-> [map |-> r.map, req |-> r.req]]
         lang == services[r.path].languageService
     IN /\ consumers' = [consumers EXCEPT ![r.document] = consumer]
        /\ pending' = Tail(pending)
        /\ returned' = Append(returned,
             [document |-> r.document, path |-> r.path, version |-> r.version,
              lang |-> lang])
        /\ served' = served \cup
             {[document |-> r.document, path |-> r.path, lang |-> lang]}
        /\ completed' = [completed EXCEPT ![r.document] = <<r.version>>]
  /\ UNCHANGED <<docVersion, docConv, services, createCalls, nextEngine, destroyed,
                 nreq, lastUpdate, lastQuery, mapVars, restartVars, optVars, rangeVars>>

\* TSSveltePlugin.getDiagnostics after `await getLanguageServiceForDocument`:
\* the three diagnostics queries on the handle, each of which has the engine
\* analyse the generated file and maps what it reports through
\* getOriginalIndexForFileName. A start is reported with the consumer that
\* translated it, or as it was when there is none.
getDiagnostics ==
  /\ returned # <<>>
  /\ LET r == Head(returned)
         service == services[r.path]
         svelteFileName == useSvelteTsxName(getFilePath(r.document))
         loaded == loadAll(service.documents, programFiles(r.document))
         snapshot == getSvelteSnapshot(loaded, svelteFileName).doc
         data == getSourceMapData(loaded, svelteFileName)
     IN /\ returned' = Tail(returned)
        /\ services' = [services EXCEPT ![r.path].documents = loaded]
        /\ \E diagnostics \in engineDiagnostics(data.generated) :
             lastQuery' =
               [document |-> r.document, lang |-> r.lang,
                fileName |-> svelteFileName, snapshot |-> snapshot,
                version |-> getScriptVersion(loaded, svelteFileName),
                consumer |-> data.consumer,
                completed |-> completed[r.document],
                diagnostics |-> [i \in 1..Len(diagnostics) |->
                                   [start |-> diagnostics[i].start,
                                    through |-> data.consumer]]]
  /\ UNCHANGED <<docVersion, docConv, createCalls, nextEngine, consumers, destroyed,
                 pending, nreq, served, completed, lastUpdate, mapVars, restartVars, optVars, rangeVars>>

\* ===================================================================
\* The position mapper on concrete texts.
\* ===================================================================
\* A text is a sequence of characters; "\n" ends a line. Offsets, lines and
\* characters are 0-based (offset k is the character text[k + 1]); the lines and
\* columns of a source map consumer are 1-based.
MaxTextLen == 2    \* characters of a text
MaxEntries == 2    \* mappings of a source map

Alphabet == {"a", "\n"}

Texts == UNION {[1..n -> Alphabet] : n \in 0..MaxTextLen}

\* ts.computeLineStarts / Document.getLineOffsets: offset 0 and the offset after
\* every line break, ascending.
computeLineStarts(text) ==
  LET S == {0} \cup {i \in 1..Len(text) : text[i] = "\n"}
  IN [n \in 1..Cardinality(S) |->
        CHOOSE x \in S : Cardinality({y \in S : y < x}) = n - 1]

\* the 0-based number of the last line that starts at or before `position`
lineOf(lineStarts, position) ==
  Cardinality({n \in 1..Len(lineStarts) : lineStarts[n] <= position}) - 1

\* ts.getLineAndCharacterOfPosition(sourceFile, position), position >= 0
getLineAndCharacterOfPosition(text, position) ==
  LET lineStarts == computeLineStarts(text)
      line == lineOf(lineStarts, position)
  IN [line |-> line, character |-> position - lineStarts[line + 1]]

\* the outcome of a call that throws
Raised == -1

\* sourceFile.getPositionOfLineAndCharacter(line, character): TypeScript's
\* computePositionOfLineAndCharacter, which asserts that the position exists.
getPositionOfLineAndCharacter(text, line, character) ==
  LET lineStarts == computeLineStarts(text)
  IN IF line < 0 \/ line >= Len(lineStarts) THEN Raised
     ELSE LET res == lineStarts[line + 1] + character
          IN IF line < Len(lineStarts) - 1
               THEN IF res < lineStarts[line + 2] THEN res ELSE Raised
               ELSE IF res <= Len(text) THEN res ELSE Raised

clamp(num, min, max) == IF num < min THEN min ELSE IF num > max THEN max ELSE num

\* Document.positionAt(offset)
positionAt(text, offset) ==
  LET o == clamp(offset, 0, Len(text))
      lineOffsets == computeLineStarts(text)
      line == lineOf(lineOffsets, o)
  IN [line |-> line, character |-> o - lineOffsets[line + 1]]

\* Document.offsetAt(position)
offsetAt(text, position) ==
  LET lineOffsets == computeLineStarts(text)
  IN IF position.line >= Len(lineOffsets) THEN Len(text)
     ELSE IF position.line < 0 THEN 0
     ELSE LET lineOffset == lineOffsets[position.line + 1]
              nextLineOffset == IF position.line + 1 < Len(lineOffsets)
                                  THEN lineOffsets[position.line + 2]
                                  ELSE Len(text)
          IN clamp(lineOffset + position.character, lineOffset, nextLineOffset)

\* --------------------------------------------------------- SourceMapConsumer
\* A consumer is the set of its mappings, each pairing a generated (line, column)
\* with an original (line, column), 1-based. A lookup that finds nothing
\* returns a result whose line and column are null.
Null == 0

\* x || 1
orOne(x) == IF x = Null THEN 1 ELSE x

before(l1, c1, l2, c2) == l1 < l2 \/ (l1 = l2 /\ c1 <= c2)

\* consumer.originalPositionFor({line, column}): the mapping of that generated
\* line with the greatest generated column not after `column`.
originalPositionFor(consumer, line, column) ==
  LET cands == {m \in consumer : m.genLine = line /\ m.genCol <= column}
  IN IF cands = {} THEN [line |-> Null, column |-> Null]
     ELSE LET m == CHOOSE x \in cands : \A y \in cands :
                     /\ y.genCol <= x.genCol
                     /\ (y.genCol = x.genCol =>
                           before(x.origLine, x.origCol, y.origLine, y.origCol))
          IN [line |-> m.origLine, column |-> m.origCol]

\* consumer.generatedPositionFor({source, line, column}): the mapping with the
\* greatest original position not after (line, column).
generatedPositionFor(consumer, line, column) ==
  LET cands == {m \in consumer : before(m.origLine, m.origCol, line, column)}
  IN IF cands = {} THEN [line |-> Null, column |-> Null]
     ELSE LET m == CHOOSE x \in cands : \A y \in cands :
                     /\ before(y.origLine, y.origCol, x.origLine, x.origCol)
                     /\ (y.origLine = x.origLine /\ y.origCol = x.origCol =>
                           before(x.genLine, x.genCol, y.genLine, y.genCol))
          IN [line |-> m.genLine, column |-> m.genCol]

\* ------------------------------------------------- the closures of service.ts
\* getSourceMapData(fileName) returns {consumer, original, generated}, each of
\* which may be undefined; `data` is that result, with a flag per member.
undefinedNumber == -2

\* Variant that passes the 0-based character to the consumer as the column.
getOriginalIndexSameColumn(data, index) ==
  IF ~data.hasConsumer \/ ~data.hasOriginal \/ ~data.hasGenerated THEN index
  ELSE LET generatedPosition == getLineAndCharacterOfPosition(data.generated, index)
           res == originalPositionFor(data.consumer, generatedPosition.line + 1,
                                      generatedPosition.character)
           originalPosition == [line |-> orOne(res.line) - 1,
                                character |-> orOne(res.column) - 1]
       IN offsetAt(data.original, originalPosition)

\* Variant that converts by line and character when there is no consumer.
getOriginalIndexNoIdentity(data, index) ==
  IF ~data.hasOriginal \/ ~data.hasGenerated THEN index
  ELSE LET generatedPosition == getLineAndCharacterOfPosition(data.generated, index)
       IN offsetAt(data.original, generatedPosition)

\* getOriginalIndexForFileName(fileName) returns this closure over `data`.
getOriginalIndex(data, index) ==
  IF ~data.hasConsumer \/ ~data.hasOriginal \/ ~data.hasGenerated THEN index
  ELSE LET generatedPosition == getLineAndCharacterOfPosition(data.generated, index)
           res == originalPositionFor(data.consumer, generatedPosition.line + 1,
                                      generatedPosition.character + 1)
           \* `res ? ... : generatedPosition`: res is an object, so the first arm
           originalPosition == [line |-> orOne(res.line) - 1,
                                character |-> orOne(res.column) - 1]
       IN offsetAt(data.original, originalPosition)

\* Variant that passes the consumer's 1-based column on as the character.
getGeneratedIndexOneBased(data, index) ==
  IF ~data.hasConsumer \/ ~data.hasOriginal \/ ~data.hasGenerated THEN index
  ELSE LET originalPosition == positionAt(data.original, index)
           res == generatedPositionFor(data.consumer, originalPosition.line + 1,
                                       originalPosition.character + 1)
       IN getPositionOfLineAndCharacter(data.generated, orOne(res.line) - 1,
                                        orOne(res.column))

\* getGeneratedIndexForFileName(fileName) returns this closure over `data`.
getGeneratedIndex(data, index) ==
  IF ~data.hasConsumer \/ ~data.hasOriginal \/ ~data.hasGenerated THEN index
  ELSE LET originalPosition == positionAt(data.original, index)
           res == generatedPositionFor(data.consumer, originalPosition.line + 1,
                                       originalPosition.character + 1)
           generatedPosition == [line |-> orOne(res.line) - 1,
                                 character |-> orOne(res.column) - 1]
       IN getPositionOfLineAndCharacter(data.generated, generatedPosition.line,
                                        generatedPosition.character)

\* Variant that translates a missing start as if it were offset 0.
mapDiagnosticCoerces(data, diagnostic) ==
  [diagnostic EXCEPT !.start = IF diagnostic.start = undefinedNumber
                                 THEN getOriginalIndex(data, 0)
                                 ELSE getOriginalIndex(data, diagnostic.start)]

\* mapDiagnostic(getOriginalIndex)(diagnostic): {...diagnostic, start: ...}
mapDiagnostic(data, diagnostic) ==
  [diagnostic EXCEPT !.start = IF diagnostic.start = undefinedNumber
                                 THEN undefinedNumber
                                 ELSE getOriginalIndex(data, diagnostic.start)]

\* getSyntacticDiagnostics, getSemanticDiagnostics and getSuggestionDiagnostics
\* of the wrapper: diagnostics.map(mapDiagnostic(getOriginalIndex))
mapDiagnostics(data, diagnostics) ==
  [i \in 1..Len(diagnostics) |-> mapDiagnostic(data, diagnostics[i])]

\* ---------------------------------------------------------------- SpecMapper
\* the 1-based (line, column) places of a text: its characters and its line ends
Places(text) ==
  {<<p.line + 1, p.character + 1>> :
     p \in {getLineAndCharacterOfPosition(text, o) : o \in 0..Len(text)}}

\* the maps a converter can give for a pair of texts: every mapping pairs a
\* place of the generated text with a place of the original
Mappings(original, generated) ==
  {[origLine |-> o[1], origCol |-> o[2], genLine |-> g[1], genCol |-> g[2]] :
     o \in Places(original), g \in Places(generated)}

\* the sets of at most n members of S
UpTo(S, n) == UNION {{{f[i] : i \in 1..k} : f \in [1..k -> S]} : k \in 0..n}

\* The scenario of the specification: "let x = 1" is generated as
\* "let x: number = 1;" and the map has the one entry (1,1) -> (1,1).
ExampleOriginal == <<"l", "e", "t", " ", "x", " ", "=", " ", "1">>
ExampleGenerated ==
  <<"l", "e", "t", " ", "x", ":", " ", "n", "u", "m", "b", "e", "r", " ", "=", " ", "1", ";">>
ExampleData ==
  [hasConsumer |-> TRUE,
   consumer |-> {[origLine |-> 1, origCol |-> 1, genLine |-> 1, genCol |-> 1]},
   hasOriginal |-> TRUE, original |-> ExampleOriginal,
   hasGenerated |-> TRUE, generated |-> ExampleGenerated]

\* What getSourceMapData can return for a generated file with a snapshot: the
\* document, the program's source file, and the consumer when one is cached.
MapInit ==
  /\ \/ \E original \in Texts, generated \in Texts :
          \E hasConsumer \in BOOLEAN :
            \E consumer \in UpTo(Mappings(original, generated), MaxEntries) :
              /\ (~hasConsumer => consumer = {})
              /\ mData = [hasConsumer |-> hasConsumer, consumer |-> consumer,
                          hasOriginal |-> TRUE, original |-> original,
                          hasGenerated |-> TRUE, generated |-> generated]
     \/ mData = ExampleData
  /\ mCall = NoQuery

\* offsets a caller or the engine passes: those of the text and one past its end
Offsets(text) == 0..(Len(text) + 1)

\* document.getFilePath() of the document the texts belong to, which the
\* feature handlers pass to every operation of the handle
queriedFilePath == getFilePath("A")

\* The file name the engine is asked about by an operation the wrapper
\* redefines: const svelteFileName = useSvelteTsxName(fileName)
svelteFileNameOf(fileName) == useSvelteTsxName(fileName)

\* The file name the engine is asked about by an operation the wrapper takes
\* from `...originalLanguageService`: the one the handler passed.
unwrappedFileNameOf(fileName) == fileName

\* One call is recorded per behaviour: the closures change nothing, so a second
\* call would only overwrite the record.
callGetOriginalIndex(index) ==
  /\ mCall = NoQuery
  /\ mCall' = [op |-> "getOriginalIndex", in |-> index,
               out |-> getOriginalIndex(mData, index)]
  /\ UNCHANGED <<mData, lifeVars, restartVars, optVars, rangeVars>>

callGetGeneratedIndex(index) ==
  /\ mCall = NoQuery
  /\ mCall' = [op |-> "getGeneratedIndex", in |-> index,
               out |-> getGeneratedIndex(mData, index)]
  /\ UNCHANGED <<mData, lifeVars, restartVars, optVars, rangeVars>>

\* lang.getQuickInfoAtPosition(fileName, position), as doHover calls it: an
\* original offset taken to the generated text and back, the engine answering
\* with the offset it was asked about
callRoundTrip(index) ==
  /\ mCall = NoQuery
  /\ LET generatedIndex == getGeneratedIndex(mData, index)
     IN mCall' = [op |-> "roundTrip", in |-> index, generatedIndex |-> generatedIndex,
                  fileName |-> svelteFileNameOf(queriedFilePath),
                  out |-> IF generatedIndex = Raised THEN Raised
                          ELSE getOriginalIndex(mData, generatedIndex)]
  /\ UNCHANGED <<mData, lifeVars, restartVars, optVars, rangeVars>>

\* the diagnostics the engine reports for the generated text: spans of it, or a
\* diagnostic without a start
EngineDiagnostics(generated) ==
  {[start |-> st, length |-> ln] :
     st \in 0..Len(generated), ln \in 0..Len(generated)} \cup
  {[start |-> undefinedNumber, length |-> undefinedNumber]}

callGetDiagnostics(diagnostic) ==
  /\ mCall = NoQuery
  /\ diagnostic.start # undefinedNumber =>
       diagnostic.start + diagnostic.length <= Len(mData.generated)
  /\ mCall' = [op |-> "getDiagnostics", in |-> diagnostic,
               fileName |-> svelteFileNameOf(queriedFilePath),
               out |-> mapDiagnostics(mData, <<diagnostic>>)]
  /\ UNCHANGED <<mData, lifeVars, restartVars, optVars, rangeVars>>

\* The members of the handle that the wrapper does not redefine are those of
\* originalLanguageService (`...originalLanguageService`): what the engine
\* answers reaches the caller as it is.
unwrapped(data, start) == start

\* lang.getNavigationTree(fileName), as getDocumentSymbols calls it: `start` is
\* the start of a span of a node of the tree the engine built
callGetNavigationTree(start) ==
  /\ mCall = NoQuery
  /\ mCall' = [op |-> "getNavigationTree", in |-> start,
               fileName |-> unwrappedFileNameOf(queriedFilePath),
               out |-> unwrapped(mData, start)]
  /\ UNCHANGED <<mData, lifeVars, restartVars, optVars, rangeVars>>

\* lang.getCodeFixesAtPosition(fileName, ...), as getCodeActions calls it:
\* `start` is the start of the span of a text change of a fix
callGetCodeFixesAtPosition(start) ==
  /\ mCall = NoQuery
  /\ mCall' = [op |-> "getCodeFixesAtPosition", in |-> start,
               fileName |-> unwrappedFileNameOf(queriedFilePath),
               out |-> unwrapped(mData, start)]
  /\ UNCHANGED <<mData, lifeVars, restartVars, optVars, rangeVars>>

MapNext ==
  \/ \E start \in 0..Len(mData.generated) : callGetNavigationTree(start)
  \/ \E start \in 0..Len(mData.generated) : callGetCodeFixesAtPosition(start)
  \/ \E index \in Offsets(mData.generated) : callGetOriginalIndex(index)
  \/ \E index \in Offsets(mData.original) : callGetGeneratedIndex(index)
  \/ \E index \in Offsets(mData.original) : callRoundTrip(index)
  \/ \E diagnostic \in EngineDiagnostics(mData.generated) : callGetDiagnostics(diagnostic)

MapIdle ==
  /\ mData = [hasConsumer |-> FALSE, consumer |-> {},
              hasOriginal |-> FALSE, original |-> <<>>,
              hasGenerated |-> FALSE, generated |-> <<>>]
  /\ mCall = NoQuery

\* ===================================================================
\* The synchronous service, which restarts the engine when a document's
\* script kind changes.
\* ===================================================================
MaxEngines == 3    \* engines a behaviour creates

ScriptKinds == {"JS", "TS"}

\* the kind of the text a file has on disk
DiskKind == "JS"

kindOf(document) == IF document \in Docs THEN rKind[document] ELSE DiskKind

\* DocumentSnapshot.fromDocument of this service: the snapshot's scriptKind is
\* the kind of the document's script
snapshotOf(document) == [document |-> document, scriptKind |-> kindOf(document)]

\* Variant of the test that sees a change whenever the path was attached.
kindChangedWhenever(preSnapshot, newSnapshot) == preSnapshot # NoSnapshot

\* Variant of the test that never sees a change of kind.
kindChangedNever(preSnapshot, newSnapshot) == FALSE

\* preSnapshot && preSnapshot.scriptKind !== newSnapshot.scriptKind
kindChanged(preSnapshot, newSnapshot) ==
  preSnapshot # NoSnapshot /\ preSnapshot.scriptKind # newSnapshot.scriptKind

\* Variant that releases nothing on a restart.
disposedOnRestartNothing(restart, languageService) == {}

\* languageService.dispose(), when the kind changed
disposedOnRestart(restart, languageService) ==
  IF restart THEN {languageService} ELSE {}

\* Variant that keeps the engine it had.
engineAfterUpdateKeepsOld(restart, languageService, created) == languageService

\* languageService = ts.createLanguageService(host), when the kind changed;
\* updateDocument returns languageService
engineAfterUpdate(restart, languageService, created) ==
  IF restart THEN created ELSE languageService

\* getSvelteSnapshot(fileName) of this service, which keys `documents` by the
\* svelte file's own name
getSvelteSnapshotSync(documents, fileName) ==
  IF documents[fileName] # NoSnapshot
    THEN [doc |-> documents[fileName], documents |-> documents]
  ELSE IF isSvelte(fileName)
    THEN LET doc == snapshotOf(createDocument(fileName))
         IN [doc |-> doc, documents |-> [documents EXCEPT ![fileName] = doc]]
  ELSE [doc |-> NoSnapshot, documents |-> documents]

RECURSIVE loadAllSync(_, _)
loadAllSync(documents, fileNames) ==
  IF fileNames = {} THEN documents
  ELSE LET f == CHOOSE x \in fileNames : TRUE
       IN loadAllSync(getSvelteSnapshotSync(documents, f).documents, fileNames \ {f})

RestartInit ==
  /\ rKind = [d \in Docs |-> "JS"]
  /\ rServices = [p \in ConfigPaths |-> NoService]
  /\ rNextEngine = 1
  /\ rDisposed = {}
  /\ rHandedOut = [p \in ConfigPaths |-> {}]
  /\ rLast = NoQuery

RestartIdle == RestartInit

\* the editor changes the language of a document's script
changeKind(d) ==
  /\ \E k \in ScriptKinds \ {rKind[d]} : rKind' = [rKind EXCEPT ![d] = k]
  /\ UNCHANGED <<rServices, rNextEngine, rDisposed, rHandedOut, rLast, lifeVars, mapVars, optVars, rangeVars>>

\* TSSveltePlugin.getDiagnostics up to its await: getLanguageServiceForDocument
\* (the registry, then updateDocument) and the three diagnostics queries, for
\* which the engine loads the document and the svelte files it imports.
getDiagnosticsSync(d) ==
  LET tsconfigPath == findConfigFile(d)
      fresh == rServices[tsconfigPath] = NoService
      created == IF fresh THEN 1 ELSE 0
      service == IF fresh
                   THEN [languageService |-> rNextEngine,
                         documents |-> [f \in FileNames |-> NoSnapshot]]
                   ELSE rServices[tsconfigPath]
      \* updateDocument
      preSnapshot == service.documents[getFilePath(d)]
      newSnapshot == snapshotOf(d)
      restart == kindChanged(preSnapshot, newSnapshot)
      languageService == engineAfterUpdate(restart, service.languageService,
                                           rNextEngine + created)
      documents == [service.documents EXCEPT ![getFilePath(d)] = newSnapshot]
      \* the queries
      loaded == loadAllSync(documents,
                  {getFilePath(d)} \cup {getFilePath(i) : i \in Imports(d)})
  IN /\ rNextEngine + created + (IF restart THEN 1 ELSE 0) <= MaxEngines + 1
     /\ rNextEngine' = rNextEngine + created + (IF restart THEN 1 ELSE 0)
     /\ rDisposed' = rDisposed \cup disposedOnRestart(restart, service.languageService)
     /\ rServices' = [rServices EXCEPT ![tsconfigPath] =
                        [languageService |-> languageService, documents |-> loaded]]
     /\ rHandedOut' = [rHandedOut EXCEPT ![tsconfigPath] = @ \cup {languageService}]
     /\ rLast' = [document |-> d, path |-> tsconfigPath, preSnapshot |-> preSnapshot,
                  newSnapshot |-> newSnapshot,
                  before |-> rHandedOut[tsconfigPath],
                  returned |-> languageService]
     /\ UNCHANGED <<rKind, lifeVars, mapVars, optVars, rangeVars>>

RestartNext ==
  \/ \E d \in Docs : changeKind(d)
  \/ \E d \in Docs : getDiagnosticsSync(d)

\* ===================================================================
\* createLanguageService: the compiler options and the declared files.
\* ===================================================================
\* Compiler options are a value per key, Unset where the key is absent.
Unset == "unset"

OptionKeys ==
  {"target", "allowJs", "strict", "noEmit", "declaration", "jsx", "jsxFactory",
   "skipLibCheck"}

NoOptions == [k \in OptionKeys |-> Unset]

\* let compilerOptions = { allowNonTsExtensions, target, module, moduleResolution, allowJs }
defaultOptions == [NoOptions EXCEPT !["target"] = "Latest", !["allowJs"] = "true"]

\* Variant of the forced options without the emit settings.
forcedOptionsNoEmitOnly ==
  [NoOptions EXCEPT !["jsx"] = "preserve", !["jsxFactory"] = "h",
                    !["skipLibCheck"] = "true"]

\* let forcedOptions = { noEmit, declaration, jsx, jsxFactory, skipLibCheck }
forcedOptions ==
  [NoOptions EXCEPT !["noEmit"] = "true", !["declaration"] = "false",
                    !["jsx"] = "preserve", !["jsxFactory"] = "h",
                    !["skipLibCheck"] = "true"]

\* { ...a, ...b }
spread(a, b) == [k \in OptionKeys |-> IF b[k] # Unset THEN b[k] ELSE a[k]]

\* the values a configuration file can give a key
UserValues(k) ==
  CASE k = "target" -> {"ES5"}
    [] k = "allowJs" -> {"false"}
    [] k = "strict" -> {"true"}
    [] k = "noEmit" -> {"false", "true"}
    [] k = "declaration" -> {"true"}
    [] k = "jsx" -> {"react"}
    [] k = "jsxFactory" -> {"React.createElement"}
    [] k = "skipLibCheck" -> {"false"}

\* the compilerOptions of a configuration object
UserConfigs ==
  {[k \in OptionKeys |-> IF k \notin set THEN Unset
                         ELSE IF k = "noEmit" THEN noEmit
                         ELSE CHOOSE v \in UserValues(k) : TRUE] :
     set \in SUBSET OptionKeys, noEmit \in UserValues("noEmit")}

\* the files of the project directory that a configuration can declare or its
\* default include can find
ProjectFiles == {"/p/a.ts"}

\* What createLanguageService is given: the configuration path ('' when there
\* is none) and, for a path, the outcome of ts.readConfigFile(...).config:
\*   ok          the object the file holds
\*   unreadable  the file cannot be read: readConfigFile returns config {} and
\*               an error
\*   malformed   the text is no JSON object: config is whatever the parser
\*               recovered, an object or undefined
\* `fileNames` is what parseJsonConfigFileContent then lists for that object:
\* the files it declares or, when it declares none, those its default include
\* finds.
ConfigReads ==
  {[tsconfigPath |-> "", read |-> "ok", hasConfig |-> FALSE, config |-> NoOptions,
    fileNames |-> {}]} \cup
  {[tsconfigPath |-> "/p/tsconfig.json", read |-> "ok", hasConfig |-> TRUE,
    config |-> c, fileNames |-> f] : c \in UserConfigs, f \in SUBSET ProjectFiles} \cup
  {[tsconfigPath |-> "/p/tsconfig.json", read |-> "unreadable", hasConfig |-> TRUE,
    config |-> NoOptions, fileNames |-> f] : f \in SUBSET ProjectFiles} \cup
  {[tsconfigPath |-> "/p/tsconfig.json", read |-> "malformed", hasConfig |-> h,
    config |-> c, fileNames |-> f] :
      h \in BOOLEAN, c \in UserConfigs, f \in SUBSET ProjectFiles}

\* ts.parseJsonConfigFileContent(configJson, ts.sys, workspacePath,
\* compilerOptions, ...): the existing options extended by the object's
\* compilerOptions, and the file names.
parseJsonConfigFileContent(read, existingOptions) ==
  [options |-> spread(existingOptions, read.config), fileNames |-> read.fileNames]

\* createLanguageService up to its forced options: the options and the declared
\* files the host is built from.
contextOf(read) ==
  LET configJson == read.tsconfigPath # "" /\ read.hasConfig
      parsedConfig == parseJsonConfigFileContent(read, defaultOptions)
      files == IF configJson THEN parsedConfig.fileNames ELSE {}
      compilerOptions == IF configJson THEN spread(defaultOptions, parsedConfig.options)
                                       ELSE defaultOptions
  IN [compilerOptions |-> spread(compilerOptions, forcedOptions), files |-> files]

OptInit ==
  /\ oRead \in {r \in ConfigReads :
                  (r.read = "malformed" /\ ~r.hasConfig) =>
                    (r.config = NoOptions /\ r.fileNames = {})}
  /\ oContext = NoQuery

OptIdle ==
  /\ oRead = NoQuery
  /\ oContext = NoQuery

\* createLanguageService(tsconfigPath, createDocument)
callCreateLanguageService ==
  /\ oContext = NoQuery
  /\ oContext' = contextOf(oRead)
  /\ UNCHANGED <<oRead, lifeVars, mapVars, restartVars, rangeVars>>

OptNext == callCreateLanguageService

\* ===================================================================
\* TSSveltePlugin.getDiagnostics after its queries: the ranges of the
\* diagnostics, for one call of one document.
\* ===================================================================
MaxVersion == 1    \* versions a document has

NoSourceMap == [undefined |-> "map"]

\* the document's text and the text of the generated source file the engine
\* reports diagnostics of: the conversion puts one line before the script
RangeOriginal == <<"a", "a">>
RangeGenerated == <<"\n", "a", "a">>

\* the raw source map of that conversion, and the consumer built from it
RangeSourceMap ==
  [mappings |-> {[origLine |-> 1, origCol |-> 1, genLine |-> 2, genCol |-> 1]}]

\* convertRange(document, range): the positions of range.start || 0 and of that
\* plus range.length || 0, in the document
convertRange(document, range) ==
  LET start == IF range.start = undefinedNumber THEN 0 ELSE range.start
      length == IF range.length = undefinedNumber THEN 0 ELSE range.length
  IN [start |-> positionAt(document, start), end |-> positionAt(document, start + length)]

\* res.line || 0
orZero(x) == IF x = Null THEN 0 ELSE x

\* the loop body of mapDiagnosticLocationToRange: pos, 1-based, through the
\* consumer
mapPos(consumer, pos) ==
  LET res == originalPositionFor(consumer, pos.line, pos.character)
  IN [line |-> orZero(res.line), character |-> orZero(res.column)]

\* mapDiagnosticLocationToRange(diagnostic, document, consumer)
mapDiagnosticLocationToRange(diagnostic, document, consumer) ==
  IF ~diagnostic.hasFile THEN convertRange(document, diagnostic)
  ELSE IF diagnostic.start = undefinedNumber THEN convertRange(document, diagnostic)
  ELSE LET s0 == getLineAndCharacterOfPosition(diagnostic.file, diagnostic.start)
           start == [line |-> s0.line + 1, character |-> s0.character + 1]
           e0 == getLineAndCharacterOfPosition(diagnostic.file,
                                               diagnostic.start + diagnostic.length)
           end == IF diagnostic.length # undefinedNumber
                    THEN [line |-> e0.line + 1, character |-> e0.character + 1]
                    ELSE start
       IN [start |-> mapPos(consumer, start), end |-> mapPos(consumer, end)]

\* the diagnostics.map(...) of the return statement: `decoder` is the variable
\* declared before the `if (sourceMap)` block
rangesOf(diagnostics, document, decoder) ==
  [i \in 1..Len(diagnostics) |->
     [range |-> IF decoder # NoConsumer
                  THEN mapDiagnosticLocationToRange(diagnostics[i], document,
                                                    decoder.consumer)
                  ELSE convertRange(document, diagnostics[i])]]

\* a diagnostic of the engine: of the generated source file or of no file, with
\* or without a start and a length
RangeDiagnostics ==
  {[hasFile |-> hf, file |-> IF hf THEN RangeGenerated ELSE <<>>,
    start |-> st, length |-> ln] :
     hf \in BOOLEAN,
     st \in {undefinedNumber} \cup (0..Len(RangeGenerated)),
     ln \in {undefinedNumber, 0, 1}}

\* what a call is given: document.version, getSourceMapForDocument(document)
\* and the diagnostics of the three queries
RangeInputs ==
  {[version |-> v, sourceMap |-> m, diagnostics |-> ds] :
     v \in 0..MaxVersion,
     m \in {NoSourceMap, RangeSourceMap},
     ds \in {<<>>} \cup
            {<<dg>> : dg \in {x \in RangeDiagnostics :
                                (x.start # undefinedNumber /\ x.length # undefinedNumber)
                                  => x.start + x.length <= Len(RangeGenerated)}}}

RangeInit ==
  /\ gIn \in RangeInputs
  /\ gCache \in {NoConsumer} \cup
                {[version |-> v, consumer |-> RangeSourceMap.mappings] : v \in 0..MaxVersion}
  /\ gOut = NoQuery

RangeIdle ==
  /\ gIn = NoQuery
  /\ gCache = NoConsumer
  /\ gOut = NoQuery

\* getDiagnostics from `let sourceMap = ...` to the await of the block, or to
\* the return when the block does not await. The block declares a `decoder` of
\* its own (decoderOfBlock); the `decoder` of the return statement is the one
\* declared before the block, which is null.
getDiagnosticsRanges ==
  /\ gOut = NoQuery
  /\ LET sourceMap == gIn.sourceMap
         decoder == NoConsumer
         decoderOfBlock == gCache
     IN IF sourceMap # NoSourceMap
             /\ (decoderOfBlock = NoConsumer \/ decoderOfBlock.version # gIn.version)
          THEN gOut' = [at |-> "await", decoder |-> decoder]
          ELSE gOut' = [at |-> "returned", decoder |-> decoder,
                        result |-> rangesOf(gIn.diagnostics, RangeOriginal, decoder)]
  /\ UNCHANGED <<gIn, gCache, lifeVars, mapVars, restartVars, optVars>>

\* after `await new SourceMapConsumer(sourceMap)`: the block's decoder is stored
\* in the cache, and the return statement runs
getDiagnosticsRangesResume ==
  /\ gOut # NoQuery
  /\ gOut.at = "await"
  /\ LET decoderOfBlock == [version |-> gIn.version, consumer |-> gIn.sourceMap.mappings]
     IN /\ gCache' = decoderOfBlock
        /\ gOut' = [at |-> "returned", decoder |-> gOut.decoder,
                    result |-> rangesOf(gIn.diagnostics, RangeOriginal, gOut.decoder)]
  /\ UNCHANGED <<gIn, lifeVars, mapVars, restartVars, optVars>>

RangeNext ==
  \/ getDiagnosticsRanges
  \/ getDiagnosticsRangesResume

LifeNext ==
  \/ \E d \in Docs : Edit(d)
  \/ \E d \in Docs : getLanguageServiceForDocument(d)
  \/ updateDocumentResume
  \/ getDiagnostics

Init == LifeInit /\ MapIdle /\ RestartIdle /\ OptIdle /\ RangeIdle

Spec == Init /\ [][LifeNext]_vars

InitMapper == LifeInit /\ MapInit /\ RestartIdle /\ OptIdle /\ RangeIdle

InitRestart == LifeInit /\ MapIdle /\ RestartInit /\ OptIdle /\ RangeIdle

SpecRestart == InitRestart /\ [][RestartNext]_vars

SpecMapper == InitMapper /\ [][MapNext]_vars

InitOptions == LifeInit /\ MapIdle /\ RestartIdle /\ OptInit /\ RangeIdle

SpecOptions == InitOptions /\ [][OptNext]_vars

\* The updates and queries of documents of every kind of first text, without
\* edits: what the file list of a host depends on.
FilesNext ==
  \/ \E d \in Docs : getLanguageServiceForDocument(d)
  \/ updateDocumentResume
  \/ getDiagnostics

InitFiles ==
  /\ \E outcomes \in [Docs -> ConvOutcomes] : LifeInitWith(outcomes)
  /\ MapIdle /\ RestartIdle /\ OptIdle /\ RangeIdle

SpecFiles == InitFiles /\ [][FilesNext]_vars

InitRanges == LifeInit /\ MapIdle /\ RestartIdle /\ OptIdle /\ RangeInit

SpecRanges == InitRanges /\ [][RangeNext]_vars

\* ===================================================================
\* Properties of the project registry and the consumer cache (Spec).
\* ===================================================================

\* C1: for one resolved configuration path the registry creates at most one
\* project container, however many requests of however many documents
\* interleave, and every request of that path is given the same engine handle.
C1_SingleInstancePerProject ==
  /\ \A p \in ConfigPaths : createCalls[p] <= 1
  /\ \A p \in ConfigPaths : services[p] # NoService <=> createCalls[p] = 1
  /\ \A s1, s2 \in served : s1.path = s2.path => s1.lang = s2.lang

\* Two different documents of one configuration path have both been served
\* while a third request is still suspended.
C1_Witness ==
  /\ \E s1, s2 \in served : s1.document # s2.document /\ s1.path = s2.path
  /\ pending # <<>>

\* C3: once an update of a document at some version has completed, the cached
\* consumer of the document is never one of an older version, it is the one
\* built from the map of the version it is tagged with, and a query reads a
\* consumer at least as new as the last completed update.
C3_MonotonicConsumerCache ==
  /\ \A d \in Docs :
       consumers[d] # NoConsumer =>
         /\ consumers[d].consumer.map = <<d, consumers[d].version>>
         /\ completed[d] # NoVersion => consumers[d].version >= completed[d][1]
  /\ (lastQuery # NoQuery /\ lastQuery.consumer # NoConsumer
        /\ lastQuery.completed # NoVersion) =>
       lastQuery.consumer.version >= lastQuery.completed[1]

\* An update at version 0 completed (its consumer has since been destroyed),
\* an update at version 1 completed after it, and the cache holds version 1.
C3_Witness ==
  \E d \in Docs :
    /\ [map |-> <<d, 0>>, req |-> 1] \in destroyed
    /\ completed[d] = <<1>>
    /\ consumers[d] # NoConsumer
    /\ consumers[d].version = 1

\* C4: when the converter throws, the snapshot that is built has empty
\* generated text, length 0 and no map, and no exception leaves the update.
C4_ConversionFailureIsAbsorbed ==
  (lastUpdate # NoQuery /\ lastUpdate.conv = "throws") =>
    /\ ~lastUpdate.raised
    /\ lastUpdate.snapshot.text = EmptyText
    /\ lastUpdate.snapshot.length = 0
    /\ lastUpdate.snapshot.map = NoMap
    /\ ~lastUpdate.awaits

\* An update ran on a document whose conversion throws.
C4_Witness ==
  /\ lastUpdate # NoQuery
  /\ lastUpdate.conv = "throws"
  /\ docVersion[lastUpdate.document] = 1

\* C5, the step of an update whose conversion fails: the request is handed the
\* live handle of its project, the document's empty snapshot is attached under
\* the generated file name, and the document's cached consumer is removed.
C5_FailedUpdateStep ==
  \A d \in Docs :
    (nreq' = nreq + 1 /\ lastUpdate'.document = d /\ docConv[d] = "throws") =>
      LET p == findConfigFile(d)
          name == Append(getFilePath(d), ".tsx")
      IN /\ services'[p] # NoService
         /\ services'[p].documents[name] # NoSnapshot
         /\ services'[p].documents[name].document = d
         /\ services'[p].documents[name].text = EmptyText
         /\ consumers'[d] = NoConsumer
         /\ returned' = Append(returned,
              [document |-> d, path |-> p, version |-> docVersion[d],
               lang |-> services'[p].languageService])

\* C5, the step of the query that follows: a request of a document that has not
\* been edited since and whose conversion fails gets no diagnostics.
C5_FailedQueryStep ==
  (returned # <<>> /\ returned' = Tail(returned)) =>
    LET r == Head(returned)
    IN (docVersion[r.document] = r.version /\ docConv[r.document] = "throws") =>
         /\ lastQuery'.document = r.document
         /\ lastQuery'.snapshot.text = EmptyText
         /\ lastQuery'.diagnostics = <<>>

\* C5: a failed conversion leaves a usable handle, the document attached under
\* its generated name with empty text, no cached consumer, and an empty
\* diagnostics list.
C5_FailedConversionDegrades == [][C5_FailedUpdateStep /\ C5_FailedQueryStep]_vars

\* A diagnostics query has run on a document whose conversion failed, after the
\* document had a consumer at its previous version.
C5_Witness ==
  /\ lastQuery # NoQuery
  /\ lastQuery.document \in Docs
  /\ docConv[lastQuery.document] = "throws"
  /\ lastQuery.snapshot.document = lastQuery.document
  /\ lastQuery.snapshot.text = EmptyText
  /\ lastQuery.diagnostics = <<>>
  /\ completed[lastQuery.document] = <<0>>
  /\ consumers[lastQuery.document] = NoConsumer

\* ===================================================================
\* Properties of the restarting service (SpecRestart).
\* ===================================================================

IsAt(text, o, line, column) ==
  LET breaks == {i \in 1..o : text[i] = "\n"}
      lineStart == IF breaks = {} THEN 0
                   ELSE CHOOSE b \in breaks : \A c \in breaks : c <= b
  IN /\ o \in 0..Len(text)
     /\ Cardinality(breaks) = line - 1
     /\ o - lineStart = column - 1

\* the mapping is the only one of the consumer at its generated place
OnlyAtGenerated(m) ==
  \A n \in mData.consumer : (n.genLine = m.genLine /\ n.genCol = m.genCol) => n = m

\* the mapping is the only one of the consumer at its original place
OnlyAtOriginal(m) ==
  \A n \in mData.consumer : (n.origLine = m.origLine /\ n.origCol = m.origCol) => n = m

\* C6: without a cached consumer, getOriginalIndex and getGeneratedIndex both
\* return the offset they are given, whatever it is.
C6_IdentityFallback ==
  (/\ mCall # NoQuery
   /\ mCall.op \in {"getOriginalIndex", "getGeneratedIndex"}
   /\ ~mData.hasConsumer) =>
    mCall.out = mCall.in

\* A translation without a consumer, of an offset past the end of the other
\* text.
C6_Witness ==
  /\ mCall # NoQuery
  /\ mCall.op \in {"getOriginalIndex", "getGeneratedIndex"}
  /\ ~mData.hasConsumer
  /\ mData.hasOriginal /\ mData.hasGenerated
  /\ mCall.in > 0
  /\ mCall.out = mCall.in
  /\ Len(mData.original) # Len(mData.generated)

\* C7: when the consumer's lookup finds no mapping, the translated offset is the
\* offset in the target text of the (line, column) the input offset has in the
\* source text, and nothing is raised.
C7_MissingMatchFallback ==
  /\ (/\ mCall # NoQuery
      /\ mCall.op = "getOriginalIndex"
      /\ mData.hasConsumer) =>
       LET generatedPosition == getLineAndCharacterOfPosition(mData.generated, mCall.in)
           res == originalPositionFor(mData.consumer, generatedPosition.line + 1,
                                      generatedPosition.character + 1)
       IN res.line = Null => mCall.out = offsetAt(mData.original, generatedPosition)
  /\ (/\ mCall # NoQuery
      /\ mCall.op = "getGeneratedIndex"
      /\ mData.hasConsumer) =>
       LET originalPosition == positionAt(mData.original, mCall.in)
           res == generatedPositionFor(mData.consumer, originalPosition.line + 1,
                                       originalPosition.character + 1)
       IN res.line = Null =>
            /\ mCall.out # Raised
            /\ IsAt(mData.generated, mCall.out, originalPosition.line + 1,
                    originalPosition.character + 1)

\* C8, as the code has it: a generated offset that is the place of exactly one
\* mapping translates to the original offset of that mapping's place, and in the
\* scenario whose map has the one entry (1,1) -> (1,1) generated offset 4
\* translates to original offset 0, the place of the nearest mapping before it.
C8_ExactAtMappedPlaces ==
  (/\ mCall # NoQuery
   /\ mCall.op = "getOriginalIndex"
   /\ mData.hasConsumer) =>
    /\ \A m \in mData.consumer :
         (OnlyAtGenerated(m) /\ IsAt(mData.generated, mCall.in, m.genLine, m.genCol)) =>
           IsAt(mData.original, mCall.out, m.origLine, m.origCol)
    /\ (mData = ExampleData /\ mCall.in = 4) => mCall.out = 0

\* A generated offset at a mapping's place was translated to another offset.
C8_Witness ==
  /\ mCall # NoQuery
  /\ mCall.op = "getOriginalIndex"
  /\ mData.hasConsumer
  /\ mCall.out # mCall.in
  /\ \E m \in mData.consumer :
       /\ OnlyAtGenerated(m)
       /\ IsAt(mData.generated, mCall.in, m.genLine, m.genCol)
       /\ <<m.genLine, m.genCol>> # <<m.origLine, m.origCol>>

\* C8 as stated: as above, but in the scenario generated offset 4 translates to
\* original offset 4.
C8_AsStated ==
  (/\ mCall # NoQuery
   /\ mCall.op = "getOriginalIndex"
   /\ mData.hasConsumer) =>
    /\ \A m \in mData.consumer :
         (OnlyAtGenerated(m) /\ IsAt(mData.generated, mCall.in, m.genLine, m.genCol)) =>
           IsAt(mData.original, mCall.out, m.origLine, m.origCol)
    /\ (mData = ExampleData /\ mCall.in = 4) => mCall.out = 4

\* C9: an original offset at the place of a mapping that is the only one at its
\* original place and the only one at its generated place is taken to that
\* generated place and comes back unchanged.
C9_RoundTrip ==
  (/\ mCall # NoQuery
   /\ mCall.op = "roundTrip"
   /\ mData.hasConsumer) =>
    \A m \in mData.consumer :
      (/\ OnlyAtOriginal(m)
       /\ OnlyAtGenerated(m)
       /\ IsAt(mData.original, mCall.in, m.origLine, m.origCol)) =>
        /\ IsAt(mData.generated, mCall.generatedIndex, m.genLine, m.genCol)
        /\ mCall.out = mCall.in

\* A round trip through a one-to-one mapping whose two places differ, in a map
\* with a second mapping.
C9_Witness ==
  /\ mCall # NoQuery
  /\ mCall.op = "roundTrip"
  /\ mData.hasConsumer
  /\ Cardinality(mData.consumer) = 2
  /\ mCall.generatedIndex # mCall.in
  /\ mCall.out = mCall.in
  /\ \E m \in mData.consumer :
       /\ OnlyAtOriginal(m)
       /\ OnlyAtGenerated(m)
       /\ IsAt(mData.original, mCall.in, m.origLine, m.origCol)

\* C10: the start and the end (start + length) of every diagnostic the wrapper
\* returns lie within the original document.
C10_DiagnosticsWithinOriginal ==
  (mCall # NoQuery /\ mCall.op = "getDiagnostics") =>
    \A i \in 1..Len(mCall.out) :
      mCall.out[i].start # undefinedNumber =>
        /\ 0 <= mCall.out[i].start
        /\ mCall.out[i].start <= Len(mData.original)
        /\ mCall.out[i].start + mCall.out[i].length <= Len(mData.original)

\* C11: a diagnostic without a start comes back from the translating wrappers
\* without a start and otherwise as the engine reported it; a diagnostic with a
\* start keeps every field but the start.
C11_MissingStartPassesThrough ==
  (mCall # NoQuery /\ mCall.op = "getDiagnostics") =>
    /\ Len(mCall.out) = 1
    /\ mCall.out[1].length = mCall.in.length
    /\ DOMAIN mCall.out[1] = DOMAIN mCall.in
    /\ mCall.in.start = undefinedNumber => mCall.out[1] = mCall.in

\* A diagnostic without a start went through the wrapper of a file that has a
\* consumer with a mapping.
C11_Witness ==
  /\ mCall # NoQuery
  /\ mCall.op = "getDiagnostics"
  /\ mCall.in.start = undefinedNumber
  /\ mData.hasConsumer
  /\ mData.consumer # {}
  /\ mCall.out[1].start = undefinedNumber

\* the last update to complete was one of document d at its current version,
\* and no update is suspended
JustUpdated(d) ==
  /\ pending = <<>>
  /\ returned # <<>>
  /\ returned[Len(returned)].document = d
  /\ returned[Len(returned)].version = docVersion[d]

\* C12, one step: an update of a document that directly follows a completed
\* update of the same document at the same version does not suspend, returns the
\* same handle, and leaves the containers (their file lists and the text of
\* every file), the document versions, the consumer entries and the destroyed
\* consumers as they were.
C12_SecondUpdateStep ==
  \A d \in Docs :
    (JustUpdated(d) /\ nreq' = nreq + 1 /\ lastUpdate'.document = d) =>
      /\ services' = services
      /\ createCalls' = createCalls
      /\ docVersion' = docVersion
      /\ consumers' = consumers
      /\ destroyed' = destroyed
      /\ pending' = <<>>
      /\ returned' = Append(returned, returned[Len(returned)])

\* C12: updating an unchanged document a second time changes nothing a query
\* reads.
C12_UpdateIsIdempotent == [][C12_SecondUpdateStep]_vars

\* Two updates of one document at one version completed one after the other,
\* the second without suspending, for a document that has a consumer.
C12_Witness ==
  /\ pending = <<>>
  /\ Len(returned) >= 2
  /\ returned[Len(returned)] = returned[Len(returned) - 1]
  /\ lastUpdate # NoQuery
  /\ lastUpdate.document = returned[Len(returned)].document
  /\ ~lastUpdate.awaits
  /\ lastUpdate.snapshot.map # NoMap
  /\ consumers[lastUpdate.document] # NoConsumer
  /\ docVersion[lastUpdate.document] = 1

\* C13: for a file with a consumer, the start of every span of a navigation
\* tree and of every text change of a code fix that the handle returns is
\* getOriginalIndex of the start the engine produced.
C13_EverySpanIsTranslated ==
  (/\ mCall # NoQuery
   /\ mCall.op \in {"getNavigationTree", "getCodeFixesAtPosition"}
   /\ mData.hasConsumer) =>
    mCall.out = getOriginalIndex(mData, mCall.in)

\* ===================================================================
\* Properties of the compiler options (SpecOptions).
\* ===================================================================

\* a context was built from a configuration object
BuiltFromConfig ==
  /\ oContext # NoQuery
  /\ oRead.tsconfigPath # ""
  /\ oRead.hasConfig

\* C14, as the code has it: whatever the configuration says, the options of the
\* engine have noEmit true, declaration false, jsx preserve, skipLibCheck true
\* and jsxFactory "h"; every other key has the configuration's value when it
\* sets one and the built-in default when it does not.
C14_ForcedOptionsWin ==
  BuiltFromConfig =>
    /\ oContext.compilerOptions["noEmit"] = "true"
    /\ oContext.compilerOptions["declaration"] = "false"
    /\ oContext.compilerOptions["jsx"] = "preserve"
    /\ oContext.compilerOptions["skipLibCheck"] = "true"
    /\ oContext.compilerOptions["jsxFactory"] = "h"
    /\ \A k \in {"target", "allowJs", "strict"} :
         oContext.compilerOptions[k] =
           IF oRead.config[k] # Unset THEN oRead.config[k]
           ELSE IF k = "strict" THEN Unset
           ELSE IF k = "target" THEN "Latest" ELSE "true"

\* The configuration sets each of the forced keys to another value and a key
\* that is not forced to a value that is not its default.
C14_Witness ==
  /\ BuiltFromConfig
  /\ oRead.read = "ok"
  /\ oRead.config["noEmit"] = "false"
  /\ oRead.config["declaration"] = "true"
  /\ oRead.config["jsx"] = "react"
  /\ oRead.config["skipLibCheck"] = "false"
  /\ oRead.config["jsxFactory"] = "React.createElement"
  /\ oRead.config["target"] = "ES5"
  /\ oContext.compilerOptions["target"] = "ES5"

\* C14 as stated: the four forced keys have their forced values, and the
\* configuration's value of every other key, jsxFactory among them, is the
\* engine's.
C14_AsStated ==
  BuiltFromConfig =>
    /\ oContext.compilerOptions["noEmit"] = "true"
    /\ oContext.compilerOptions["declaration"] = "false"
    /\ oContext.compilerOptions["jsx"] = "preserve"
    /\ oContext.compilerOptions["skipLibCheck"] = "true"
    /\ \A k \in OptionKeys \ {"noEmit", "declaration", "jsx", "skipLibCheck"} :
         oRead.config[k] # Unset => oContext.compilerOptions[k] = oRead.config[k]

\* C15: when the configuration file cannot be read or parsed, the context has
\* the default options with the forced ones and no declared file.
C15_ConfigFailureFallsBack ==
  (oContext # NoQuery /\ oRead.read \in {"unreadable", "malformed"}) =>
    /\ oContext.files = {}
    /\ \A k \in OptionKeys :
         oContext.compilerOptions[k] =
           IF k = "noEmit" THEN "true"
           ELSE IF k = "declaration" THEN "false"
           ELSE IF k = "jsx" THEN "preserve"
           ELSE IF k = "jsxFactory" THEN "h"
           ELSE IF k = "skipLibCheck" THEN "true"
           ELSE IF k = "target" THEN "Latest"
           ELSE IF k = "allowJs" THEN "true"
           ELSE Unset

\* ===================================================================
\* Properties of the snapshot lookup (Spec).
\* ===================================================================

\* C16, as the code has it: in every container, getSvelteSnapshot returns the
\* entry of a file that has one and changes nothing; for a file without an
\* entry it changes no other file's entry, adds none for a name that is not a
\* generated file's, and for a generated file's name adds the snapshot of the
\* svelte file read from disk and returns it.
C16_LookupLoadsOnlyMissingGeneratedFiles ==
  \A p \in ConfigPaths :
    services[p] # NoService =>
      \A f \in FileNames :
        LET documents == services[p].documents
            r == getSvelteSnapshot(documents, f)
        IN /\ \A g \in FileNames \ {f} : r.documents[g] = documents[g]
           /\ documents[f] # NoSnapshot =>
                (r.doc = documents[f] /\ r.documents = documents)
           /\ (documents[f] = NoSnapshot /\ f[Len(f)] # ".tsx") =>
                (r.doc = NoSnapshot /\ r.documents = documents)
           /\ (documents[f] = NoSnapshot /\ f[Len(f)] = ".tsx") =>
                /\ r.documents[f] = r.doc
                /\ r.doc # NoSnapshot
                /\ r.doc.document \notin Docs
                /\ r.doc.srcVersion = 0

\* The engine's callbacks have loaded the generated file of an imported svelte
\* file from disk, next to the attached snapshot of an open document.
C16_Witness ==
  \E p \in ConfigPaths :
    /\ services[p] # NoService
    /\ \E f, g \in FileNames :
         /\ services[p].documents[f] # NoSnapshot
         /\ services[p].documents[f].document \notin Docs
         /\ services[p].documents[g] # NoSnapshot
         /\ services[p].documents[g].document \in Docs

\* C16 as stated: no call of getSvelteSnapshot changes the snapshot map of its
\* container, for any file name.
C16_AsStated ==
  \A p \in ConfigPaths :
    services[p] # NoService =>
      \A f \in FileNames :
        getSvelteSnapshot(services[p].documents, f).documents = services[p].documents

\* ===================================================================
\* Properties of the engine's life in the restarting service (SpecRestart).
\* ===================================================================

C18_QuietUpdateStep ==
  (rKind' = rKind /\ rLast' # NoQuery) =>
    LET d == rLast'.document
        p == findConfigFile(d)
    IN (/\ rServices[p] # NoService
        /\ \/ rServices[p].documents[getFilePath(d)] = NoSnapshot
           \/ rServices[p].documents[getFilePath(d)].scriptKind = rKind[d]) =>
         /\ rDisposed' = rDisposed
         /\ rNextEngine' = rNextEngine
         /\ rServices'[p].languageService = rServices[p].languageService
         /\ rLast'.returned = rServices[p].languageService

C20_TranslationUsesSnapshotVersion ==
  (/\ lastQuery # NoQuery
   /\ lastQuery.snapshot # NoSnapshot
   /\ lastQuery.snapshot.map # NoMap) =>
    /\ lastQuery.consumer # NoConsumer
    /\ lastQuery.consumer.version = lastQuery.snapshot.srcVersion

\* ===================================================================
\* Properties of the consumer cache under updates (Spec).
\* ===================================================================

\* C21, one step: an update of a document whose text converts with a map and
\* whose cached consumer entry has the document's version suspends at no
\* construction of a consumer, destroys none and leaves every cached entry as
\* it was; and an update that does suspend to construct one found no entry or
\* an entry of another version.
C21_ReuseStep ==
  \A d \in Docs :
    (nreq' = nreq + 1 /\ lastUpdate'.document = d) =>
      /\ (/\ docConv[d] = "map"
          /\ consumers[d] # NoConsumer
          /\ consumers[d].version = docVersion[d]) =>
           /\ pending' = pending
           /\ destroyed' = destroyed
           /\ consumers' = consumers
      /\ pending' # pending =>
           (consumers[d] = NoConsumer \/ consumers[d].version # docVersion[d])

\* C21: the consumer of a document is rebuilt only when the document's version
\* differs from the version of the cached entry.
C21_RebuiltOnlyOnVersionChange == [][C21_ReuseStep]_vars

\* An update found the cached entry at its document's version and did not
\* suspend, while the update of another document was suspended.
C21_Witness ==
  /\ lastUpdate # NoQuery
  /\ ~lastUpdate.awaits
  /\ lastUpdate.snapshot.map # NoMap
  /\ consumers[lastUpdate.document] # NoConsumer
  /\ consumers[lastUpdate.document].version = docVersion[lastUpdate.document]
  /\ returned # <<>>
  /\ returned[Len(returned)].document = lastUpdate.document
  /\ pending # <<>>
  /\ \A i \in 1..Len(pending) : pending[i].document # lastUpdate.document

\* ===================================================================
\* Properties of what the host serves to the engine (Spec).
\* ===================================================================

\* C22, one step of a query: for every file the engine loads to answer it, the
\* version the host reports is the version of the document text that the
\* generated text the host serves was derived from.
C22_ServedStep ==
  (returned # <<>> /\ returned' = Tail(returned)) =>
    LET r == Head(returned)
        documents == services'[r.path].documents
    IN \A f \in programFiles(r.document) :
         getScriptVersion(documents, f) = getScriptSnapshot(documents, f).srcVersion

\* C22: the engine is never given a version number together with generated text
\* of another version of the document.
C22_SnapshotValidity == [][C22_ServedStep]_vars

\* the documents updateDocument has attached to a project: those of the updates
\* that returned and of the updates that are suspended
AttachedTo(p) ==
  {s.document : s \in {t \in served : t.path = p}} \cup
  {pending[i].document : i \in {j \in 1..Len(pending) : pending[j].path = p}}

\* the names of a list
Reported(list) == {list[i] : i \in 1..Len(list)}

\* the files a project declares, svelte files under their generated names
DeclaredAsReported(p) ==
  IF p = "" THEN {} ELSE {<<"/p/main", ".ts">>, <<"/p/A", ".svelte", ".tsx">>}

\* the generated files getSvelteSnapshot has read from disk for the engine
LoadedFromDisk(p) ==
  {f \in FileNames : /\ services[p].documents[f] # NoSnapshot
                     /\ services[p].documents[f].document \notin Docs}

\* C23, as the code has it: the file list the host of a project reports has no
\* name twice and no name that ends in .svelte, and its names are the declared
\* files, the generated file of every document attached so far, the generated
\* file of every svelte file the engine's callbacks have loaded from disk, and
\* the two shim declaration files.
C23_FileListIsUnion ==
  \A p \in ConfigPaths :
    services[p] # NoService =>
      LET list == getScriptFileNames(p, services[p].documents)
      IN /\ \A i, j \in 1..Len(list) : list[i] = list[j] => i = j
         /\ \A f \in Reported(list) : f[Len(f)] # ".svelte"
         /\ Reported(list) =
              DeclaredAsReported(p) \cup
              {Append(getFilePath(d), ".tsx") : d \in AttachedTo(p)} \cup
              LoadedFromDisk(p) \cup
              {<<"/svelte2tsx/svelte-shims", ".d.ts">>, <<"/svelte2tsx/svelte-jsx", ".d.ts">>}

\* A project has attached the svelte file it also declares, and the engine has
\* loaded the svelte file it imports from disk.
C23_Witness ==
  LET p == "/p/tsconfig.json"
  IN /\ services[p] # NoService
     /\ "A" \in AttachedTo(p)
     /\ LoadedFromDisk(p) = {<<"/p/B", ".svelte", ".tsx">>}
     /\ Len(getScriptFileNames(p, services[p].documents)) = 5

\* C23 as stated: the names of the list are the declared files, the generated
\* files of the attached documents and the two shim files, and no others.
C23_AsStated ==
  \A p \in ConfigPaths :
    services[p] # NoService =>
      LET list == getScriptFileNames(p, services[p].documents)
      IN /\ \A i, j \in 1..Len(list) : list[i] = list[j] => i = j
         /\ \A f \in Reported(list) : f[Len(f)] # ".svelte"
         /\ Reported(list) =
              DeclaredAsReported(p) \cup
              {Append(getFilePath(d), ".tsx") : d \in AttachedTo(p)} \cup
              {<<"/svelte2tsx/svelte-shims", ".d.ts">>, <<"/svelte2tsx/svelte-jsx", ".d.ts">>}

\* ===================================================================
\* Properties of the file names the engine is asked about (SpecMapper).
\* ===================================================================

\* C24: every operation a feature handler calls on the handle with the path of
\* a svelte document asks the engine about the generated file name, the one
\* updateDocument stored the document's snapshot under.
C24_QueriesReachGeneratedFile ==
  (/\ mCall # NoQuery
   /\ mCall.op \in {"getDiagnostics", "roundTrip", "getNavigationTree",
                    "getCodeFixesAtPosition"}) =>
    mCall.fileName = Append(queriedFilePath, ".tsx")

\* ===================================================================
\* Properties of the independence of projects and documents (Spec).
\* ===================================================================

\* what an update of document d must leave alone: the container of every other
\* project (its snapshot map, hence the file list its host reports, and its
\* engine handle), and in every container the snapshot of every other document,
\* and the consumer entry of every other document
LeavesOthersAlone(d) ==
  /\ \A p \in ConfigPaths \ {findConfigFile(d)} :
       /\ services'[p] = services[p]
       /\ createCalls'[p] = createCalls[p]
  /\ \A p \in ConfigPaths :
       (services[p] # NoService /\ services'[p] # NoService) =>
         /\ services'[p].languageService = services[p].languageService
         /\ \A e \in Docs \ {d} :
              services'[p].documents[Append(getFilePath(e), ".tsx")] =
                services[p].documents[Append(getFilePath(e), ".tsx")]
  /\ \A e \in Docs \ {d} : consumers'[e] = consumers[e]

\* C25, one step: both parts of an updateDocument call, the one up to its await
\* and the one after it, leave the other projects and the other documents alone.
C25_UpdateStep ==
  /\ \A d \in Docs :
       (nreq' = nreq + 1 /\ lastUpdate'.document = d) => LeavesOthersAlone(d)
  /\ (pending # <<>> /\ pending' = Tail(pending)) =>
       LeavesOthersAlone(Head(pending).document)

\* C25: an update of a document of one project changes nothing of another
\* project and nothing of another document.
C25_ProjectsAreIndependent == [][C25_UpdateStep]_vars

\* A document of the project without a configuration was updated, and its
\* consumer built, after a document of the other project had been attached and
\* given a consumer.
C25_Witness ==
  /\ lastUpdate # NoQuery
  /\ lastUpdate.document = "C"
  /\ consumers["C"] # NoConsumer
  /\ consumers["A"] # NoConsumer
  /\ services["/p/tsconfig.json"] # NoService
  /\ services["/p/tsconfig.json"].documents[<<"/p/A", ".svelte", ".tsx">>] # NoSnapshot
  /\ services["/p/tsconfig.json"].documents[<<"/p/A", ".svelte", ".tsx">>].document = "A"
  /\ services[""] # NoService

\* ===================================================================
\* Properties of the life of the consumers (Spec).
\* ===================================================================

\* C26, the cache: no entry of `consumers` holds a consumer on which destroy()
\* has been called.
C26_CacheHoldsNoDestroyed ==
  \A d \in Docs : consumers[d] # NoConsumer => consumers[d].consumer \notin destroyed

\* C26, one step of a query: the consumer getSourceMapData hands to the
\* translating closures has not been destroyed.
C26_QueryStep ==
  (returned # <<>> /\ returned' = Tail(returned)) =>
    (lastQuery'.consumer # NoConsumer => lastQuery'.consumer.consumer \notin destroyed)

\* C26: no translation uses a destroyed consumer, and none is reachable through
\* the cache in any state.
C26_NoUseAfterDestroy == []C26_CacheHoldsNoDestroyed /\ [][C26_QueryStep]_vars

\* C27, one step: a consumer is constructed into the cache, so none is leaked
\* when every consumer that leaves the cache (its entry is deleted or replaced)
\* has had destroy() called on it.
C27_LeaveStep ==
  \A d \in Docs :
    (consumers[d] # NoConsumer /\ consumers'[d] # consumers[d]) =>
      consumers[d].consumer \in destroyed'

\* C27: every consumer that was constructed and is no longer in the cache has
\* been destroyed.
C27_NoConsumerLeaked == [][C27_LeaveStep]_vars

\* ===================================================================
\* Properties of the ranges the plugin computes itself (SpecRanges).
\* ===================================================================

\* C28: when the document has a source map, the cache holds a consumer of the
\* document's version when the call returns, and the range of every diagnostic
\* returned is the one mapDiagnosticLocationToRange computes with that consumer;
\* without a source map every range is the one convertRange computes.
C28_RangesThroughConsumer ==
  (gOut # NoQuery /\ gOut.at = "returned") =>
    /\ Len(gOut.result) = Len(gIn.diagnostics)
    /\ gIn.sourceMap # NoSourceMap =>
         /\ gCache # NoConsumer
         /\ gCache.version = gIn.version
         /\ \A i \in 1..Len(gOut.result) :
              gOut.result[i].range =
                mapDiagnosticLocationToRange(gIn.diagnostics[i], RangeOriginal,
                                             gCache.consumer)
    /\ gIn.sourceMap = NoSourceMap =>
         \A i \in 1..Len(gOut.result) :
           gOut.result[i].range = convertRange(RangeOriginal, gIn.diagnostics[i])

====
